---------------------------- MODULE Spec2Model ----------------------------
(***************************************************************************)
(* A model of chemora_ocean.py: the Species and Environment classes and    *)
(* the generation loop of simulate_ecosystem.                              *)
(*                                                                         *)
(* Real numbers.  The traits and the energy reserve are Python floats.     *)
(* They are held here as exact rationals with the common denominator       *)
(* Scale: the integer n stands for the real n / Scale.  Populations and    *)
(* chemical quantities are integers and stand for themselves.  Scale is    *)
(* 100 * 10^MaxMutations, so that a trait given in hundredths can be       *)
(* multiplied MaxMutations times by a factor given in tenths without any   *)
(* rounding.  Floating-point rounding is not modelled.  The print calls    *)
(* are not modelled.                                                       *)
(***************************************************************************)
EXTENDS Integers, Sequences, FiniteSets, TLC

VARIABLES
    species_list,        \* sequence of Species objects (records)
    chemicals,           \* environment.chemicals: chemical kind -> quantity
    generations,         \* the argument of simulate_ecosystem
    population_history,  \* species name -> sequence of populations
    chemical_history,    \* sequence of chemical totals
    gen,                 \* loop variable of "for gen in range(generations)"
    idx,                 \* loop variable of the inner for loops (1-based)
    pc,                  \* position in simulate_ecosystem
    last,                \* the last method call: its name, arguments, pre-state
    mutations,           \* number of mutations so far (bounded by MaxMutations)
    calls,               \* number of direct method calls so far (SpecCalls)
    ghost                \* what the current generation has done so far

vars == <<species_list, chemicals, generations, population_history,
          chemical_history, gen, idx, pc, last, mutations, calls, ghost>>

---------------------------------------------------------------------------
(* Bounds of the model *)

MaxGen == 2

MaxMutations == 1

MaxCalls == 3

---------------------------------------------------------------------------
(* Program constants *)

REPLENISH_MIN == 10

REPLENISH_MAX == 50

ENERGY_YIELD == [hydrogen |-> 10, sulfur |-> 8, methane |-> 5]

None == 0

---------------------------------------------------------------------------
(* Arithmetic *)

RECURSIVE Pow10(_)
Pow10(n) == IF n = 0 THEN 1 ELSE 10 * Pow10(n - 1)

Scale == 100 * Pow10(MaxMutations)

Min(a, b) == IF a <= b THEN a ELSE b

\* Mathematical floor of a / b, for b > 0.
Floor(a, b) == a \div b

\* Python's int() of the real a / b, for b > 0: truncation toward zero.
int(a, b) == IF a >= 0 THEN a \div b ELSE -((-a) \div b)

RECURSIVE SumOver(_, _)
SumOver(f, S) ==
    IF S = {} THEN 0
    ELSE LET k == CHOOSE x \in S : TRUE IN f[k] + SumOver(f, S \ {k})

\* Variant: the quantity of one kind only.
sum_values_one_kind(chem) ==
    IF DOMAIN chem = {} THEN 0 ELSE chem[CHOOSE k \in DOMAIN chem : TRUE]

\* sum(environment.chemicals.values())
sum_values(chem) == SumOver(chem, DOMAIN chem)

---------------------------------------------------------------------------
(* class Species: a Species object is a record                             *)
(*   [name, energy_efficiency, reproduction_rate, predation_rate,          *)
(*    chemical_affinity, population, energy, symbiosis]                    *)
(* energy_efficiency, reproduction_rate, predation_rate and energy are in  *)
(* units of 1 / Scale.  symbiosis is None or the position in species_list  *)
(* of the partner object.                                                  *)

\* Variant: the whole population feeds, whatever is available.
consumed_no_min(s, environment) == s.population

\* min(environment[chemical], self.population)
consumed(s, environment) ==
    Min(environment[s.chemical_affinity], s.population)

energy_gained(s, environment) ==
    consumed(s, environment) * ENERGY_YIELD[s.chemical_affinity]
        * s.energy_efficiency

\* Variant: the guard is environment[chemical] >= 0.
consume_chemicals_self_ge(s, environment) ==
    IF environment[s.chemical_affinity] >= 0
    THEN [s EXCEPT !.energy = @ + energy_gained(s, environment)]
    ELSE s

\* consume_chemicals: what it does to self
consume_chemicals_self(s, environment) ==
    IF environment[s.chemical_affinity] > 0
    THEN [s EXCEPT !.energy = @ + energy_gained(s, environment)]
    ELSE s

\* Variant: environment[chemical] -= self.population.
consume_chemicals_env_no_min(s, environment) ==
    IF environment[s.chemical_affinity] > 0
    THEN [environment EXCEPT ![s.chemical_affinity] = @ - s.population]
    ELSE environment

\* consume_chemicals: what it does to the environment mapping
consume_chemicals_env(s, environment) ==
    IF environment[s.chemical_affinity] > 0
    THEN [environment EXCEPT
              ![s.chemical_affinity] = @ - consumed(s, environment)]
    ELSE environment

energy_needed(s) == s.population * 2 * Scale

\* Variant: every reproduction yields at least one offspring.
offspring_at_least_one(s) ==
    IF int(s.population * s.reproduction_rate, Scale) >= 1
    THEN int(s.population * s.reproduction_rate, Scale)
    ELSE 1

offspring(s) == int(s.population * s.reproduction_rate, Scale)

reproduce(s) ==
    IF s.energy >= energy_needed(s)
    THEN [s EXCEPT !.population = @ + offspring(s),
                   !.energy = @ - energy_needed(s)]
    ELSE s

\* Variant: the loss is computed from the predator's own population.
prey_loss_of_predator(self, prey) ==
    int(self.population * self.predation_rate, Scale)

prey_loss(self, prey) == int(prey.population * self.predation_rate, Scale)

\* Variant: the predator pays half of the loss instead of gaining it.
predation_self_pays(self, prey) ==
    IF prey.population > 0
    THEN [self EXCEPT !.population = @ - (prey_loss(self, prey) \div 2)]
    ELSE self

\* Variant: the predator gains the whole loss, not half of it.
predation_self_full_gain(self, prey) ==
    IF prey.population > 0
    THEN [self EXCEPT !.population = @ + prey_loss(self, prey)]
    ELSE self

\* predation: what it does to self (the predator)
predation_self(self, prey) ==
    IF prey.population > 0
    THEN [self EXCEPT !.population = @ + (prey_loss(self, prey) \div 2)]
    ELSE self

\* predation: what it does to prey
predation_prey(self, prey) ==
    IF prey.population > 0
    THEN [prey EXCEPT !.population = @ - prey_loss(self, prey)]
    ELSE prey

\* int(self.symbiosis.population * 0.1), as energy
symbiosis_gain(partner) == int(partner.population, 10) * Scale

symbiotic_interaction(s, partners) ==
    IF s.symbiosis # None
    THEN [s EXCEPT !.energy = @ + symbiosis_gain(partners[s.symbiosis])]
    ELSE s

Traits == {"energy_efficiency", "reproduction_rate", "predation_rate"}

\* random.uniform(0.9, 1.1), in tenths: the two ends of the range
MutationFactors == {9, 11}

\* Variant: the mutation is applied to all three traits.
mutate_all_traits(s, trait, mutation_factor) ==
    [s EXCEPT !.energy_efficiency = (@ * mutation_factor) \div 10,
              !.reproduction_rate = (@ * mutation_factor) \div 10,
              !.predation_rate = (@ * mutation_factor) \div 10]

\* The mutating branch of evolve: trait *= mutation_factor
mutate(s, trait, mutation_factor) ==
    [s EXCEPT ![trait] = (@ * mutation_factor) \div 10]

---------------------------------------------------------------------------
(* class Environment *)

\* random.randint(10, 50): the ends of the range
ReplenishAmounts == {REPLENISH_MIN, REPLENISH_MAX}

\* Variant: the drawn amount replaces the quantity.
replenish_chemicals_assign(chem, amount) ==
    [chemical \in DOMAIN chem |-> amount[chemical]]

replenish_chemicals(chem, amount) ==
    [chemical \in DOMAIN chem |-> chem[chemical] + amount[chemical]]

---------------------------------------------------------------------------
(* Inputs: the species lists and environments the runs start from *)

\* A trait given in hundredths, and an energy given in whole units.
Hundredths(h) == h * Pow10(MaxMutations)

Energy(x) == x * Scale

\* Species.__init__, with population and energy as the caller leaves them
\* (the constructor draws population from 50..150 and sets energy to 0; both
\* are plain attributes a caller may set before the run).
Species(name, energy_efficiency, reproduction_rate, predation_rate, chemical_affinity, population, energy, symbiosis) ==
    [name |-> name,
     energy_efficiency |-> Hundredths(energy_efficiency),
     reproduction_rate |-> Hundredths(reproduction_rate),
     predation_rate |-> Hundredths(predation_rate),
     chemical_affinity |-> chemical_affinity,
     population |-> population,
     energy |-> Energy(energy),
     symbiosis |-> symbiosis]

\* The example setup of the script: three species, Chemosynth B in
\* symbiosis with Chemosynth A, and INITIAL_CHEMICALS.
ExampleSetup ==
    [species_list |->
        << Species("Chemosynth A", 80, 5, 2, "hydrogen", 100, 0, None),
           Species("Chemosynth B", 70, 4, 3, "sulfur", 150, 0, 1),
           Species("Chemosynth C", 60, 6, 4, "methane", 50, 0, None) >>,
     chemicals |-> [hydrogen |-> 1000, sulfur |-> 800, methane |-> 500]]

\* A predator whose predation_rate is just below 1, in symbiosis with its
\* large prey, which cannot feed.
OverPredation ==
    [species_list |->
        << Species("P", 100, 5, 95, "hydrogen", 20, 0, 2),
           Species("Q", 50, 50, 0, "sulfur", 1000, 0, None) >>,
     chemicals |-> [hydrogen |-> 30, sulfur |-> 0]]

Scenarios ==
    { ExampleSetup,
      \* no species at all
      [species_list |-> << >>,
       chemicals |-> [hydrogen |-> 5]],
      \* one species with plenty of its chemical
      [species_list |->
          << Species("A", 80, 5, 2, "hydrogen", 100, 0, None) >>,
       chemicals |-> [hydrogen |-> 1000]],
      \* one species whose chemical is exhausted, energy exactly 2 * population
      [species_list |->
          << Species("A", 80, 5, 2, "hydrogen", 100, 200, None) >>,
       chemicals |-> [hydrogen |-> 0, sulfur |-> 7]],
      \* a predator with a small rate and a prey that cannot feed
      [species_list |->
          << Species("P", 80, 5, 2, "hydrogen", 60, 0, None),
             Species("Q", 70, 4, 0, "sulfur", 200, 0, None) >>,
       chemicals |-> [hydrogen |-> 30, sulfur |-> 0]],
      \* a chain of predators that take the whole prey population
      \* (predation_rate 1): the middle one is emptied, then feeds
      [species_list |->
          << Species("P", 100, 50, 100, "hydrogen", 20, 0, 2),
             Species("Q", 50, 100, 100, "hydrogen", 15, 0, None),
             Species("R", 50, 100, 0, "hydrogen", 10, 0, None) >>,
       chemicals |-> [hydrogen |-> 30]],
      OverPredation,
      \* a species whose chemical the environment mapping does not hold
      [species_list |->
          << Species("A", 80, 5, 2, "sulfur", 100, 0, None) >>,
       chemicals |-> [hydrogen |-> 5]],
      \* two species sharing one scarce chemical, the second extinct at start
      [species_list |->
          << Species("A", 100, 10, 50, "methane", 8, 3, None),
             Species("B", 100, 10, 0, "methane", 0, 0, 1) >>,
       chemicals |-> [methane |-> 5, sulfur |-> 0]],
      \* two species with the same name
      [species_list |->
          << Species("A", 80, 5, 2, "hydrogen", 100, 0, None),
             Species("A", 70, 4, 3, "sulfur", 50, 0, None) >>,
       chemicals |-> [hydrogen |-> 40, sulfur |-> 800]] }

NoCall ==
    [op |-> "none", self |-> 0, prey |-> 0, trait |-> "", factor |-> 0,
     species_list |-> << >>, chemicals |-> << >>]

\* A record of the call being made: the method, its arguments and the state
\* it is called in.
Call(op, self, prey, trait, factor) ==
    [op |-> op, self |-> self, prey |-> prey, trait |-> trait,
     factor |-> factor, species_list |-> species_list,
     chemicals |-> chemicals]

N == Len(species_list)

---------------------------------------------------------------------------
(* The method calls, on the objects of species_list and on the environment *)

DoConsume(i) ==
    /\ species_list' = [species_list EXCEPT
                           ![i] = consume_chemicals_self(@, chemicals)]
    /\ chemicals' = consume_chemicals_env(species_list[i], chemicals)
    /\ last' = Call("consume_chemicals", i, 0, "", 0)
    /\ UNCHANGED mutations

DoSymbiosis(i) ==
    /\ species_list' = [species_list EXCEPT
                           ![i] = symbiotic_interaction(@, species_list)]
    /\ last' = Call("symbiotic_interaction", i, 0, "", 0)
    /\ UNCHANGED <<chemicals, mutations>>

DoReproduce(i) ==
    /\ species_list' = [species_list EXCEPT ![i] = reproduce(@)]
    /\ last' = Call("reproduce", i, 0, "", 0)
    /\ UNCHANGED <<chemicals, mutations>>

\* species_list[i].predation(species_list[j]), i # j
DoPredation(i, j) ==
    /\ species_list' =
           [species_list EXCEPT
               ![i] = predation_self(@, species_list[j]),
               ![j] = predation_prey(species_list[i], @)]
    /\ last' = Call("predation", i, j, "", 0)
    /\ UNCHANGED <<chemicals, mutations>>

\* evolve: mutation_chance < 0.1 or not; then the trait and the factor.
\* A run mutates at most MaxMutations times, which keeps every product
\* trait * mutation_factor an exact multiple of 1 / Scale.
DoEvolve(i) ==
    \/ /\ mutations < MaxMutations
       /\ \E trait \in Traits, mutation_factor \in MutationFactors :
             /\ species_list' = [species_list EXCEPT
                                    ![i] = mutate(@, trait, mutation_factor)]
             /\ last' = Call("evolve", i, 0, trait, mutation_factor)
       /\ mutations' = mutations + 1
       /\ UNCHANGED chemicals
    \/ /\ last' = Call("evolve", i, 0, "", 0)
       /\ UNCHANGED <<species_list, chemicals, mutations>>

DoReplenish ==
    /\ \E amount \in [DOMAIN chemicals -> ReplenishAmounts] :
          chemicals' = replenish_chemicals(chemicals, amount)
    /\ last' = Call("replenish_chemicals", 0, 0, "", 0)
    /\ UNCHANGED <<species_list, mutations>>

---------------------------------------------------------------------------
(* simulate_ecosystem(species_list, environment, generations) *)

Names == {species_list[i].name : i \in 1..N}

\* Variant: for i in range(len(species_list)).
predation_pairs_all(n) == n

\* range(len(species_list) - 1): the number of predation calls
predation_pairs(n) == n - 1

\* Variant: prey = species_list[i].
prey_at_self(i) == i

\* prey = species_list[i + 1]
prey_at(i) == i + 1

\* Variant: reproduce is called before symbiotic_interaction.
body_step_reproduce_first(phase) ==
    CASE phase = "consume" -> "reproduce"
      [] phase = "reproduce" -> "symbiosis"
      [] phase = "symbiosis" -> "record"

\* The statements of the per-species loop body, in program order:
\* consume_chemicals, symbiotic_interaction, reproduce, history append.
body_step(phase) ==
    CASE phase = "consume" -> "symbiosis"
      [] phase = "symbiosis" -> "reproduce"
      [] phase = "reproduce" -> "record"

\* consume_chemicals raises KeyError: environment[chemical] of a kind the
\* mapping does not hold, or ENERGY_YIELD[chemical] of a kind without yield.
raises_KeyError(s, environment) ==
    \/ s.chemical_affinity \notin DOMAIN environment
    \/ /\ environment[s.chemical_affinity] > 0
       /\ s.chemical_affinity \notin DOMAIN ENERGY_YIELD

\* Bookkeeping of the generation under way: the calls made, the species as
\* the generation found them, each population right after its reproduce
\* step, and what was consumed and replenished (this generation and the
\* one before).
NoGhost ==
    [trace |-> << >>, start |-> << >>, chem |-> << >>,
     reproduced |-> << >>, consumed |-> 0, replenished |-> 0,
     prev_consumed |-> 0, prev_replenished |-> 0]

Traced(op, self, prey) ==
    [ghost EXCEPT !.trace = Append(@, <<op, self, prey>>)]

Init ==
    /\ \E sc \in Scenarios :
          /\ species_list = sc.species_list
          /\ chemicals = sc.chemicals
    /\ generations \in 0..MaxGen
    /\ population_history = << >>
    /\ chemical_history = << >>
    /\ gen = 0
    /\ idx = 0
    /\ pc = "begin"
    /\ last = NoCall
    /\ mutations = 0
    /\ calls = 0
    /\ ghost = NoGhost

\* population_history = {species.name: [] ...}; chemical_history = []
Begin ==
    /\ pc = "begin"
    /\ population_history' = [n \in Names |-> << >>]
    /\ chemical_history' = << >>
    /\ gen' = 0
    /\ pc' = "for_gen"
    /\ UNCHANGED <<species_list, chemicals, generations, idx, last,
                   mutations, calls, ghost>>

\* for gen in range(generations): the snapshot of the chemical total
GenerationStart ==
    /\ pc = "for_gen"
    /\ gen < generations
    /\ chemical_history' = Append(chemical_history, sum_values(chemicals))
    /\ IF N >= 1 THEN pc' = "consume" /\ idx' = 1
                 ELSE pc' = "replenish" /\ idx' = 0
    /\ ghost' = [trace |-> << >>, start |-> species_list,
                 chem |-> chemicals, reproduced |-> << >>,
                 consumed |-> 0, replenished |-> 0,
                 prev_consumed |-> ghost.consumed,
                 prev_replenished |-> ghost.replenished]
    /\ UNCHANGED <<species_list, chemicals, generations, population_history,
                   gen, last, mutations, calls>>

ConsumeStep ==
    /\ pc = "consume"
    /\ IF raises_KeyError(species_list[idx], chemicals)
       THEN /\ pc' = "error"
            /\ UNCHANGED <<species_list, chemicals, last, mutations, ghost>>
       ELSE /\ DoConsume(idx)
            /\ pc' = body_step("consume")
            /\ ghost' =
                  [Traced("consume_chemicals", idx, 0) EXCEPT
                      !.consumed =
                          @ + chemicals[species_list[idx].chemical_affinity]
                            - chemicals'[species_list[idx].chemical_affinity]]
    /\ UNCHANGED <<generations, population_history, chemical_history, gen,
                   idx, calls>>

SymbiosisStep ==
    /\ pc = "symbiosis"
    /\ DoSymbiosis(idx)
    /\ pc' = body_step("symbiosis")
    /\ ghost' = Traced("symbiotic_interaction", idx, 0)
    /\ UNCHANGED <<generations, population_history, chemical_history, gen,
                   idx, calls>>

ReproduceStep ==
    /\ pc = "reproduce"
    /\ DoReproduce(idx)
    /\ pc' = body_step("reproduce")
    /\ ghost' = [Traced("reproduce", idx, 0) EXCEPT
                    !.reproduced = Append(@, species_list'[idx].population)]
    /\ UNCHANGED <<generations, population_history, chemical_history, gen,
                   idx, calls>>

\* population_history[species.name].append(species.population)
RecordStep ==
    /\ pc = "record"
    /\ population_history' =
           [population_history EXCEPT
               ![species_list[idx].name] =
                   Append(@, species_list[idx].population)]
    /\ IF idx < N THEN pc' = "consume" /\ idx' = idx + 1
       ELSE IF predation_pairs(N) >= 1 THEN pc' = "predation" /\ idx' = 1
       ELSE pc' = "evolve" /\ idx' = 1
    /\ UNCHANGED <<species_list, chemicals, generations, chemical_history,
                   gen, last, mutations, calls, ghost>>

\* for i in range(len(species_list) - 1): predator.predation(prey);
\* species_list[i + 1] past the end of the list raises IndexError
PredationStep ==
    /\ pc = "predation"
    /\ IF prey_at(idx) > N
       THEN /\ pc' = "error"
            /\ UNCHANGED <<species_list, chemicals, last, mutations, ghost,
                           idx>>
       ELSE /\ DoPredation(idx, prey_at(idx))
            /\ ghost' = Traced("predation", idx, prey_at(idx))
            /\ IF idx < predation_pairs(N)
               THEN pc' = "predation" /\ idx' = idx + 1
               ELSE pc' = "evolve" /\ idx' = 1
    /\ UNCHANGED <<generations, population_history, chemical_history, gen,
                   calls>>

EvolveStep ==
    /\ pc = "evolve"
    /\ DoEvolve(idx)
    /\ ghost' = Traced("evolve", idx, 0)
    /\ IF idx < N THEN pc' = "evolve" /\ idx' = idx + 1
                  ELSE pc' = "replenish" /\ idx' = 0
    /\ UNCHANGED <<generations, population_history, chemical_history, gen,
                   calls>>

ReplenishStep ==
    /\ pc = "replenish"
    /\ DoReplenish
    /\ ghost' = [Traced("replenish_chemicals", 0, 0) EXCEPT
                    !.replenished =
                        @ + SumOver(chemicals', DOMAIN chemicals')
                          - SumOver(chemicals, DOMAIN chemicals)]
    /\ gen' = gen + 1
    /\ pc' = "for_gen"
    /\ UNCHANGED <<generations, population_history, chemical_history, idx,
                   calls>>

\* return population_history, chemical_history
Return ==
    /\ pc = "for_gen"
    /\ gen >= generations
    /\ pc' = "done"
    /\ UNCHANGED <<species_list, chemicals, generations, population_history,
                   chemical_history, gen, idx, last, mutations, calls, ghost>>

Next ==
    \/ Begin
    \/ GenerationStart
    \/ ConsumeStep
    \/ SymbiosisStep
    \/ ReproduceStep
    \/ RecordStep
    \/ PredationStep
    \/ EvolveStep
    \/ ReplenishStep
    \/ Return

Spec == Init /\ [][Next]_vars

\* simulate_ecosystem run one generation longer, on the over-predation
\* input: a population that predation has left negative is then read by
\* the calls of the following generation.
InitLong ==
    /\ species_list = OverPredation.species_list
    /\ chemicals = OverPredation.chemicals
    /\ generations \in 0..(MaxGen + 1)
    /\ population_history = << >>
    /\ chemical_history = << >>
    /\ gen = 0
    /\ idx = 0
    /\ pc = "begin"
    /\ last = NoCall
    /\ mutations = 0
    /\ calls = 0
    /\ ghost = NoGhost

SpecLong == InitLong /\ [][Next]_vars

---------------------------------------------------------------------------
(* The methods called directly, in any order, on the same objects, at    *)
(* most MaxCalls times.  predation is called on two distinct objects.      *)

InitCalls ==
    /\ \E sc \in Scenarios :
          /\ species_list = sc.species_list
          /\ chemicals = sc.chemicals
    /\ generations = 0
    /\ population_history = << >>
    /\ chemical_history = << >>
    /\ gen = 0
    /\ idx = 0
    /\ pc = "calls"
    /\ last = NoCall
    /\ mutations = 0
    /\ calls = 0
    /\ ghost = NoGhost

Called ==
    /\ pc = "calls"
    /\ calls < MaxCalls
    /\ calls' = calls + 1
    /\ UNCHANGED <<generations, population_history, chemical_history, gen,
                   idx, pc, ghost>>

\* The call raises KeyError and changes nothing.
Raised ==
    /\ pc = "calls"
    /\ calls < MaxCalls
    /\ pc' = "error"
    /\ UNCHANGED <<species_list, chemicals, generations, population_history,
                   chemical_history, gen, idx, last, mutations, calls, ghost>>

CallConsume ==
    \E i \in 1..N :
        IF raises_KeyError(species_list[i], chemicals)
        THEN Raised
        ELSE DoConsume(i) /\ Called

CallSymbiosis == \E i \in 1..N : DoSymbiosis(i) /\ Called

CallReproduce == \E i \in 1..N : DoReproduce(i) /\ Called

CallPredation ==
    \E i \in 1..N, j \in 1..N : i # j /\ DoPredation(i, j) /\ Called

CallEvolve == \E i \in 1..N : DoEvolve(i) /\ Called

CallReplenish == DoReplenish /\ Called

NextCalls ==
    \/ CallConsume
    \/ CallSymbiosis
    \/ CallReproduce
    \/ CallPredation
    \/ CallEvolve
    \/ CallReplenish

SpecCalls == InitCalls /\ [][NextCalls]_vars

---------------------------------------------------------------------------
(* Claims *)

\* The state a call was made in, and the objects it was made on.
Pre(i) == last.species_list[i]

Now(i) == species_list[i]

\* C1: in every state of a run of simulate_ecosystem (so after every
\* behaviour call), every species has population >= 0 and energy >= 0.
C1_PopulationEnergyNonNegative ==
    \A i \in 1..N : Now(i).population >= 0 /\ Now(i).energy >= 0

\* C2: the quantity of every chemical kind is >= 0 in every reachable
\* state, whatever consume_chemicals and replenish_chemicals calls (and
\* other calls) were made, in whatever order.
C2_QuantitiesNonNegative ==
    \A chemical \in DOMAIN chemicals : chemicals[chemical] >= 0

\* C2 witness: after another species with the same affinity has fed, a
\* consume_chemicals call by a species whose population exceeds what is
\* left of the chemical has emptied it.
C2_Witness ==
    /\ last.op = "consume_chemicals"
    /\ LET a == Pre(last.self).chemical_affinity IN
          /\ last.chemicals[a] > 0
          /\ Pre(last.self).population > last.chemicals[a]
          /\ chemicals[a] = 0
          /\ \E j \in 1..N :
                /\ j # last.self
                /\ Now(j).chemical_affinity = a
                /\ Now(j).energy > 0

\* C3: when simulate_ecosystem returns, the population sequence under each
\* species' name and the chemical history have length generations.
C3_HistoryLengths ==
    pc = "done" =>
        /\ Len(chemical_history) = generations
        /\ \A i \in 1..N :
              Len(population_history[Now(i).name]) = generations

\* C4: a predation call by a predator with predation_rate in [0, 1] on a
\* prey with population >= 0 leaves the prey's population >= 0.
C4_PredationKeepsPreyNonNegative ==
    ( /\ last.op = "predation"
      /\ Pre(last.self).predation_rate >= 0
      /\ Pre(last.self).predation_rate <= Scale
      /\ Pre(last.prey).population >= 0 )
    => Now(last.prey).population >= 0

\* C4 witness: a predator with predation_rate exactly 1 has taken the whole
\* of a non-empty prey population.
C4_Witness ==
    /\ last.op = "predation"
    /\ Pre(last.self).predation_rate = Scale
    /\ Pre(last.prey).population > 0
    /\ Now(last.prey).population = 0

\* C5: a replenish_chemicals call raises the quantity of every chemical
\* kind by between 10 and 50, keeps the set of kinds and changes no species.
C5_ReplenishBounds ==
    last.op = "replenish_chemicals" =>
        /\ DOMAIN chemicals = DOMAIN last.chemicals
        /\ \A chemical \in DOMAIN chemicals :
              /\ chemicals[chemical] >= last.chemicals[chemical] + 10
              /\ chemicals[chemical] <= last.chemicals[chemical] + 50
        /\ species_list = last.species_list

\* C5 witness: one call has raised one kind by 10 and another kind by 50.
C5_Witness ==
    /\ last.op = "replenish_chemicals"
    /\ \E k1 \in DOMAIN chemicals, k2 \in DOMAIN chemicals :
          /\ chemicals[k1] = last.chemicals[k1] + 10
          /\ chemicals[k2] = last.chemicals[k2] + 50

\* C6: a consume_chemicals call with a positive quantity avail of the
\* species' affinity a takes consumed = min(avail, population), adds
\* consumed * yield(a) * energy_efficiency to energy (yield: hydrogen 10,
\* sulfur 8, methane 5), lowers the quantity of a by consumed and leaves
\* the population and every other quantity as they were.
C6_ConsumeEffect ==
    LET s == Pre(last.self)
        a == s.chemical_affinity
        avail == last.chemicals[a]
        taken == IF avail <= s.population THEN avail ELSE s.population
        yield == [hydrogen |-> 10, sulfur |-> 8, methane |-> 5]
    IN  (last.op = "consume_chemicals" /\ avail > 0) =>
            /\ Now(last.self).energy =
                   s.energy + taken * yield[a] * s.energy_efficiency
            /\ chemicals[a] = avail - taken
            /\ Now(last.self).population = s.population
            /\ DOMAIN chemicals = DOMAIN last.chemicals
            /\ \A k \in DOMAIN chemicals \ {a} :
                  chemicals[k] = last.chemicals[k]

\* C6 witness: hydrogen 1000, population 100, energy_efficiency 0.8: the
\* call has added 800 to the energy and left hydrogen at 900.
C6_Witness ==
    /\ last.op = "consume_chemicals"
    /\ Pre(last.self).chemical_affinity = "hydrogen"
    /\ last.chemicals["hydrogen"] = 1000
    /\ Pre(last.self).population = 100
    /\ Pre(last.self).energy_efficiency = Hundredths(80)
    /\ Now(last.self).energy = Pre(last.self).energy + Energy(800)
    /\ chemicals["hydrogen"] = 900

\* C7: a consume_chemicals call when the quantity of the species' affinity
\* is 0 changes no species and no quantity.
C7_ConsumeAtZero ==
    ( /\ last.op = "consume_chemicals"
      /\ last.chemicals[Pre(last.self).chemical_affinity] = 0 )
    => /\ species_list = last.species_list
       /\ chemicals = last.chemicals

\* C7 witness: a repeated consume_chemicals call of a species with a
\* positive population on its exhausted chemical.
C7_Witness ==
    /\ last.op = "consume_chemicals"
    /\ calls >= 2
    /\ last.chemicals[Pre(last.self).chemical_affinity] = 0
    /\ Pre(last.self).population > 0

\* C8: a reproduce call changes neither population nor energy when
\* energy < 2 * population; otherwise it adds
\* floor(population * reproduction_rate) to population and subtracts
\* 2 * population from energy.
C8_ReproduceEffect ==
    LET s == Pre(last.self) IN
    last.op = "reproduce" =>
        IF s.energy < 2 * s.population * Scale
        THEN /\ Now(last.self).population = s.population
             /\ Now(last.self).energy = s.energy
        ELSE /\ Now(last.self).population =
                    s.population
                        + Floor(s.population * s.reproduction_rate, Scale)
             /\ Now(last.self).energy = s.energy - 2 * s.population * Scale

C10_RecordedAfterReproduce ==
    (last.op = "reproduce" /\ pc \notin {"record", "calls"}) =>
        LET s == Now(last.self)
            history == population_history[s.name]
        IN  /\ Len(history) >= gen + 1
            /\ history[gen + 1] = s.population

\* The sum of all chemical quantities of a mapping.
Total(chem) == SumOver(chem, DOMAIN chem)

\* A generation is under way: its snapshot is taken, its replenish is not
\* yet done.
InGeneration ==
    pc \in {"consume", "symbiosis", "reproduce", "record", "predation",
            "evolve", "replenish"}

\* C11: the g-th chemical-history value is the sum of all chemical
\* quantities at the start of generation g, before any consumption or
\* replenishment of that generation; the first value is the sum of the
\* initial quantities, and each later value is the previous value minus
\* everything consumed in the previous generation plus everything
\* replenished at its end.
C11_ChemicalHistory ==
    /\ InGeneration =>
          /\ Len(chemical_history) = gen + 1
          /\ chemical_history[gen + 1] = Total(ghost.chem)
          /\ ghost.trace = << >> => ghost.chem = chemicals
          /\ gen = 0 =>
                \E sc \in Scenarios :
                    /\ ghost.start = sc.species_list
                    /\ ghost.chem = sc.chemicals
                    /\ chemical_history[1] = Total(sc.chemicals)
    /\ pc \in {"for_gen", "done"} => Len(chemical_history) = gen
    /\ Len(chemical_history) >= 2 =>
          chemical_history[Len(chemical_history)] =
              chemical_history[Len(chemical_history) - 1]
                  - ghost.prev_consumed + ghost.prev_replenished

\* C11 witness: a run has returned two snapshots, the second one being the
\* first minus what generation 1 consumed plus what its replenish added.
C11_Witness ==
    /\ pc = "done"
    /\ Len(chemical_history) = 2
    /\ ghost.prev_consumed > 0
    /\ ghost.prev_replenished > 0
    /\ chemical_history[2] # chemical_history[1]
    /\ Cardinality(DOMAIN chemicals) >= 2

\* The calls one generation makes over n species, in the documented order:
\* per species consume, symbiosis, reproduce; then the predation pairs;
\* then evolve per species; then one replenish.
ExpectedTrace(n) ==
    LET pairs == IF n >= 1 THEN n - 1 ELSE 0
    IN  [k \in 1..(3 * n + pairs + n + 1) |->
            IF k <= 3 * n
            THEN LET i == ((k - 1) \div 3) + 1
                     r == (k - 1) % 3
                 IN  IF r = 0 THEN <<"consume_chemicals", i, 0>>
                     ELSE IF r = 1 THEN <<"symbiotic_interaction", i, 0>>
                     ELSE <<"reproduce", i, 0>>
            ELSE IF k <= 3 * n + pairs
            THEN <<"predation", k - 3 * n, k - 3 * n + 1>>
            ELSE IF k <= 3 * n + pairs + n
            THEN <<"evolve", k - 3 * n - pairs, 0>>
            ELSE <<"replenish_chemicals", 0, 0>>]

IsPrefix(s, t) ==
    /\ Len(s) <= Len(t)
    /\ \A k \in 1..Len(s) : s[k] = t[k]

\* C12: within every generation the calls run in the strict order consume,
\* symbiosis, reproduce for all species in list order, then all predation
\* pairs, then evolve for all species, then exactly one replenish; predation
\* reads the prey population left by this generation's reproduce step and
\* the predation_rate the generation started with (left by the previous
\* generation's evolve); nothing is consumed after the replenish of a
\* generation before the next generation starts.
C12_PhaseOrder ==
    pc \notin {"begin", "calls"} =>
        /\ IsPrefix(ghost.trace, ExpectedTrace(N))
        /\ (pc \in {"for_gen", "done"} /\ gen >= 1) =>
              ghost.trace = ExpectedTrace(N)
        /\ InGeneration => ghost.replenished = 0
        /\ (last.op = "predation" /\ pc \in {"predation", "evolve"}) =>
              /\ Pre(last.prey).population = ghost.reproduced[last.prey]
              /\ Pre(last.self).predation_rate =
                     ghost.start[last.self].predation_rate

\* C12 witness: in the second generation of a run over three species the
\* first predation has read a prey population that this generation's
\* reproduce has changed, with the predation_rate that the first
\* generation's evolve has left.
C12_Witness ==
    /\ last.op = "predation"
    /\ pc = "predation"
    /\ gen = 1
    /\ N = 3
    /\ Len(ghost.trace) = 10
    /\ Pre(last.prey).population # ghost.start[last.prey].population
    /\ Pre(last.self).predation_rate = (Hundredths(2) * 11) \div 10

\* C13: symbiotic_interaction adds exactly floor(partner.population * 0.1)
\* to the calling species' energy when a symbiosis partner is set and
\* changes nothing when no partner is set; in both cases the partner's
\* population, energy and traits, the caller's population and traits, the
\* other species and the environment are left unchanged.
C13_SymbioticInteractionEffect ==
    last.op = "symbiotic_interaction" =>
        LET self == Pre(last.self)
        IN  /\ chemicals = last.chemicals
            /\ \A i \in 1..N : i # last.self => Now(i) = Pre(i)
            /\ IF self.symbiosis # None
               THEN Now(last.self) =
                        [self EXCEPT !.energy =
                            @ + Floor(Pre(self.symbiosis).population, 10)
                                    * Scale]
               ELSE Now(last.self) = self

\* Every species holds as affinity one chemical kind of the environment,
\* which has an energy yield.
WellFormed ==
    \A i \in 1..N :
        species_list[i].chemical_affinity
            \in (DOMAIN chemicals \cap DOMAIN ENERGY_YIELD)

\* C14: for well-formed inputs no step of the simulation loop ends in an
\* error: a run that has not returned can always take its next step, and
\* it returns only after all G generations, each with all its calls, also
\* for an empty species list; with G = 0 no call is made and the species
\* and the chemical quantities are those given.
C14_NoError ==
    (WellFormed /\ pc # "calls") =>
        /\ pc # "error"
        /\ pc # "done" => ENABLED Next
        /\ gen <= generations
        /\ pc = "done" =>
              /\ gen = generations
              /\ Len(chemical_history) = generations
              /\ \A i \in 1..N :
                    Len(population_history[species_list[i].name])
                        >= generations
              /\ generations >= 1 => ghost.trace = ExpectedTrace(N)
        /\ (generations = 0 /\ pc # "begin") =>
              /\ last = NoCall
              /\ chemical_history = << >>
              /\ \A n \in Names : population_history[n] = << >>
              /\ \E sc \in Scenarios :
                    /\ species_list = sc.species_list
                    /\ chemicals = sc.chemicals

\* C14 witness: a run of MaxGen generations over three species, with a
\* mutation on the way, has returned.
C14_Witness ==
    /\ WellFormed
    /\ pc = "done"
    /\ generations = MaxGen
    /\ gen = MaxGen
    /\ N = 3
    /\ mutations = 1
    /\ Len(chemical_history) = MaxGen

\* The predation calls among the calls of a generation, in call order.
PredationCalls(trace) == SelectSeq(trace, LAMBDA e : e[1] = "predation")

\* C15: in each generation of a run over N species, predation is applied
\* exactly once to each pair (species[i], species[i+1]), in increasing i,
\* with species[i] as predator and species[i+1] as prey, and to no other
\* pair: the first species is never prey, the last never predator (list
\* positions counted from 1 here: pairs (k, k+1) for k = 1..N-1).
C15_PredationPairs ==
    pc \notin {"begin", "calls"} =>
        LET p == PredationCalls(ghost.trace)
            pairs == IF N >= 1 THEN N - 1 ELSE 0
        IN  /\ Len(p) <= pairs
            /\ \A k \in 1..Len(p) : p[k] = <<"predation", k, k + 1>>
            /\ (pc \in {"evolve", "replenish"}
                  \/ (pc \in {"for_gen", "done"} /\ gen >= 1)) =>
                  Len(p) = pairs
            /\ last.op = "predation" =>
                  /\ last.prey = last.self + 1
                  /\ last.self >= 1
                  /\ last.prey <= N
                  /\ \A i \in 1..N :
                        i \notin {last.self, last.prey} => Now(i) = Pre(i)

\* C15 witness: in a run over three species the second pair (2, 3) has
\* just had its predation, after the pair (1, 2), and the prey has shrunk.
C15_Witness ==
    /\ pc = "evolve"
    /\ N = 3
    /\ PredationCalls(ghost.trace) =
           << <<"predation", 1, 2>>, <<"predation", 2, 3>> >>
    /\ last.op = "predation"
    /\ last.self = 2
    /\ last.prey = 3
    /\ Now(3).population < Pre(3).population

\* C16: the symbiosis gain of species B with partner A in a generation is
\* computed from A's population at the moment B is processed: if A is after
\* B in the list, the gain is floor(0.1 * A's population before A's
\* reproduce of this generation), which is A's population as the generation
\* found it; if A is before B, the gain is floor(0.1 * A's population after
\* A's reproduce of this generation).
C16_SymbiosisTiming ==
    (/\ last.op = "symbiotic_interaction"
     /\ pc = "reproduce"
     /\ Pre(last.self).symbiosis # None) =>
        LET B == last.self
            A == Pre(B).symbiosis
            gain == Now(B).energy - Pre(B).energy
        IN  /\ A > B =>
                  gain = Floor(ghost.start[A].population, 10) * Scale
            /\ A < B =>
                  gain = Floor(ghost.reproduced[A], 10) * Scale

\* The number of species of the list that bear the name n.
Bearing(n) == Cardinality({i \in 1..N : species_list[i].name = n})

C18_PredationRateInUnitInterval ==
    \A i \in 1..N :
        /\ species_list[i].predation_rate >= 0
        /\ species_list[i].predation_rate <= Scale

\* C19: each evolve call either changes nothing or multiplies exactly one
\* of energy_efficiency, reproduction_rate, predation_rate by a factor in
\* [0.9, 1.1] and leaves the other two traits unchanged; it never changes
\* the species' population, energy, chemical_affinity or symbiosis
\* reference, nor any other species or the environment; and no step of a
\* run changes a chemical_affinity or takes a positive trait to a value
\* that is not positive.
C19_EvolveEffect ==
    [][/\ \A i \in 1..N :
             /\ species_list'[i].chemical_affinity =
                    species_list[i].chemical_affinity
             /\ \A trait \in Traits :
                    species_list[i][trait] > 0 =>
                        species_list'[i][trait] > 0
       /\ pc = "evolve" =>
             /\ chemicals' = chemicals
             /\ \A j \in 1..N :
                    j # idx => species_list'[j] = species_list[j]
             /\ \/ species_list'[idx] = species_list[idx]
                \/ \E trait \in Traits :
                      /\ species_list'[idx] =
                             [species_list[idx] EXCEPT
                                 ![trait] = species_list'[idx][trait]]
                      /\ 10 * species_list'[idx][trait]
                             >= 9 * species_list[idx][trait]
                      /\ 10 * species_list'[idx][trait]
                             <= 11 * species_list[idx][trait]]_vars

\* C19 witness: an evolve call of the loop has multiplied the
\* reproduction_rate of a species by 0.9 and left its other fields alone.
C19_Witness ==
    /\ last.op = "evolve"
    /\ pc \in {"evolve", "replenish"}
    /\ last.trait = "reproduction_rate"
    /\ last.factor = 9
    /\ Now(last.self) # Pre(last.self)
    /\ Now(last.self) =
           [Pre(last.self) EXCEPT
               !.reproduction_rate = (9 * Pre(last.self).reproduction_rate)
                                         \div 10]

\* C20: the population of the first species in the list never decreases
\* during a run: every step of simulate_ecosystem leaves it greater than or
\* equal to its previous value (all inputs have reproduction_rate > 0 and
\* predation_rate >= 0; the first species is never prey).
C20_FirstSpeciesNeverDecreases ==
    [][N >= 1 =>
          /\ Len(species_list') = N
          /\ species_list'[1].population >= species_list[1].population]_vars

\* C20 witness: in a run over several species the first one has grown by
\* its reproduce step and then by its predation on the second species.
C20_Witness ==
    /\ last.op = "predation"
    /\ pc \in {"predation", "evolve"}
    /\ last.self = 1
    /\ ghost.reproduced[1] > ghost.start[1].population
    /\ Pre(1).population = ghost.reproduced[1]
    /\ Now(1).population > Pre(1).population

=============================================================================
